---- MODULE Spec2Model ----
(***************************************************************************)
(* A model of the multi-window GUI shell of src/core/application.rs and    *)
(* src/core/window.rs: the window registry (windows, window_indices), the  *)
(* single-threaded event dispatcher (new_events, window_event), the        *)
(* frame-rate gate and redraw cascade, and the start-up capability         *)
(* negotiation (min_transparency folded over the offered configs).         *)
(*                                                                         *)
(* Conventions                                                             *)
(*   - A Rust Option<T> is a set with at most one element.                 *)
(*   - Vec indices are zero-based as in the source; the TLA+ sequence      *)
(*     windows holds Vec element i at position i + 1.                      *)
(*   - Time is counted in units of 1/120 s, so the frame interval of 1/60 s *)
(*     is FrameDuration = 2 units.  Every handler runs to completion       *)
(*     before the next event (single dispatch thread), so a handler is one *)
(*     atomic step taken at the instant frame_start = now.                 *)
(*   - lastEvent, paintedAt, pass and paintedSinceTick are history         *)
(*     variables: they record what the steps did and are never read by the *)
(*     program.  lastEvent is the last event that changed the registry,    *)
(*     painted, resized or consumed a redraw request; ModifiersChanged     *)
(*     changes keyboard_modifiers only, and an event that is dropped or    *)
(*     ignored leaves every variable as it is.  ops is the history of the  *)
(*     GPU and registry operations of that event, in program order.        *)
(*   - A u32 is the pair of its 16-bit halves [hi, lo], so that the whole  *)
(*     range of the type is represented exactly.                           *)
(*   - env fixes what the windowing and graphics libraries answer during   *)
(*     start-up and what run_app returns; it is NoFaults in every          *)
(*     specification but StartSpec, which ranges over Envs.  A dimension   *)
(*     that does not fit the i32 Skia takes fails in create_surface.       *)
(***************************************************************************)
EXTENDS Integers, Sequences, FiniteSets, TLC

VARIABLES
    pc,               \* "new" (inside Application::new), "constructed" (it returned),
                      \* "running", "exiting", "exited", "panicked"
    windows,          \* ApplicationInternal.windows : Vec<Window>
    window_indices,   \* ApplicationInternal.window_indices : HashMap<WindowId, usize>
    keyboard_modifiers, \* ApplicationInternal.keyboard_modifiers : Modifiers
    current,          \* the window whose GL context is current on the thread (Option)
    redraw_requests,  \* windows with a RedrawRequested event in flight (winit coalesces)
    now,              \* std::time::Instant::now()
    lastEvent,        \* history: the event handled by the last step
    ops,              \* history: the GPU and registry operations of that event
    paintedAt,        \* history: per window id, the instant of its last repaint (Option)
    pass,             \* history: the redraw pass since the last external tick
    paintedSinceTick, \* history: the first window repainted since the last external tick (Option)
    recording,        \* whether the history variables are kept (fixed by the specification)
    candidates,       \* the configs offered to the picker closure
    rest,             \* the part of the configs iterator not yet consumed by reduce
    gl_config,        \* reduce's accumulator, then ApplicationInternal.gl_config (Option)
    neg_pc,           \* position inside Application::new: "new", "build", then inside
                      \* configs.reduce(min_transparency).unwrap(): "start", "fold",
                      \* "done", "panic"
    env,              \* what the windowing and graphics layers answer in this run
    termination       \* how the process ended (Option)

appVars == <<pc, windows, window_indices, keyboard_modifiers, current, redraw_requests,
             now, lastEvent, ops, paintedAt, pass, paintedSinceTick, recording>>
negVars == <<candidates, rest, gl_config, neg_pc>>
vars == <<pc, windows, window_indices, keyboard_modifiers, current, redraw_requests,
          now, lastEvent, ops, paintedAt, pass, paintedSinceTick, recording,
          candidates, rest, gl_config, neg_pc, env, termination>>
procVars == <<env, termination>>

(***************************************************************************)
(* Bounds of the model.                                                    *)
(***************************************************************************)
MaxWindows == 3     \* at most this many windows are registered at once
MaxTime == 3        \* the clock stops advancing here
MaxConfigs == 3     \* at most this many configs are offered
MaxSamples == 2     \* num_samples ranges over 0..MaxSamples
MaxFrame == 1       \* the frame counter, a usize, wraps to 0 after MaxFrame
MaxLiveWindows == 2 \* at most this many windows are registered at once in LiveSpec

(***************************************************************************)
(* Program constants.                                                      *)
(***************************************************************************)
FrameDuration == 2  \* Duration::from_secs_f64(1.0 / 60.0), in units of 1/120 s

WindowIds == 1..MaxWindows
Times == 0..MaxTime

(***************************************************************************)
(* The ways the process ends.                                              *)
(***************************************************************************)
\* mod exit_codes
exit_codes == [OS_ERROR |-> 1, OP_NOT_SUPPORTED |-> 2, EVENT_LOOP_ERROR |-> 3]

\* process::exit(code); cause is the history of the condition that led to it.
Exited(cause, code) == [kind |-> "exit", cause |-> cause, code |-> {code}, message |-> ""]

\* A panic of expect or unwrap on the main thread: the process ends without a
\* call of process::exit.
Panicked(cause, message) == [kind |-> "panic", cause |-> cause, code |-> {}, message |-> message]

\* EventLoopError and the Ok of the Result.
EventLoopErrors == {"NotSupported", "Os", "RecreationAttempt"}

\* The answers of the layers below: EventLoop::new, DisplayBuilder::build, the
\* raw window it returns, create_context (first attempt, fallback, neither), and
\* event_loop.run_app once the loop is left for a reason other than exit().
Envs ==
    [event_loop : {"Ok"} \cup EventLoopErrors,
     display : {"Ok", "Err"},
     raw_window : BOOLEAN,
     context : {"Ok", "Fallback", "Err"},
     run_app : {"Ok", "ExitFailure"} \cup EventLoopErrors]

NoFaults ==
    [event_loop |-> "Ok", display |-> "Ok", raw_window |-> TRUE, context |-> "Ok",
     run_app |-> "Ok"]

\* The status of EventLoopError::ExitFailure(code): the loop reports it only for
\* a status other than 0.
ExitFailureCodes == {-1, 1, 4}

(***************************************************************************)
(* Capability negotiation: Application::new.                               *)
(***************************************************************************)
\* let event_loop = EventLoop::new().expect("Failed to create event loop");
NewEventLoop ==
    /\ pc = "new"
    /\ neg_pc = "new"
    /\ IF env.event_loop = "Ok"
       THEN neg_pc' = "build" /\ UNCHANGED termination
       ELSE /\ neg_pc' = "panic"
            /\ termination' = {Panicked("event_loop", "Failed to create event loop")}
    /\ UNCHANGED <<candidates, rest, gl_config, env>>
    /\ UNCHANGED appVars

\* DisplayBuilder::new()...build(..).expect("Could not create OpenGL config"),
\* up to the call of the picker closure.
BuildDisplay ==
    /\ pc = "new"
    /\ neg_pc = "build"
    /\ IF env.display = "Ok"
       THEN neg_pc' = "start" /\ UNCHANGED termination
       ELSE /\ neg_pc' = "panic"
            /\ termination' = {Panicked("display", "Could not create OpenGL config")}
    /\ UNCHANGED <<candidates, rest, gl_config, env>>
    /\ UNCHANGED appVars

\* raw_window.expect("Could not create window with OpenGL context"), then
\* Application { .. } is returned.
Construct ==
    /\ pc = "new"
    /\ neg_pc = "done"
    /\ IF env.raw_window
       THEN pc' = "constructed" /\ UNCHANGED termination
       ELSE /\ pc' = "panicked"
            /\ termination' = {Panicked("window",
                                        "Could not create window with OpenGL context")}
    /\ UNCHANGED <<windows, window_indices, keyboard_modifiers, current, redraw_requests,
                   now, lastEvent, ops, paintedAt, pass, paintedSinceTick, recording>>
    /\ UNCHANGED <<negVars, env>>

Configs == [supports_transparency : {{}, {TRUE}, {FALSE}}, num_samples : 0..MaxSamples]

\* Option::unwrap_or
unwrap_or(opt, default) == IF opt = {} THEN default ELSE CHOOSE b \in opt : TRUE

\* Mutant of min_transparency: the comparison of the sample counts is reversed.
min_transparency_max_samples(c1, c2) ==
    LET transparency1 == unwrap_or(c1.supports_transparency, FALSE)
        transparency2 == unwrap_or(c2.supports_transparency, FALSE)
    IN  IF (transparency1 /\ ~transparency2) \/ c1.num_samples > c2.num_samples
        THEN c1
        ELSE c2

\* fn min_transparency(c1: Config, c2: Config) -> Config
min_transparency(c1, c2) ==
    LET transparency1 == unwrap_or(c1.supports_transparency, FALSE)
        transparency2 == unwrap_or(c2.supports_transparency, FALSE)
    IN  IF (transparency1 /\ ~transparency2) \/ c1.num_samples < c2.num_samples
        THEN c1
        ELSE c2

\* Iterator::reduce, first call of next(): None makes reduce return None and
\* unwrap() panic; Some(first) becomes the accumulator.
ReduceFirst ==
    /\ neg_pc = "start"
    /\ IF rest = <<>>
       THEN /\ neg_pc' = "panic"
            /\ termination' = {Panicked("no_config",
                                        "called Option::unwrap() on a None value")}
            /\ UNCHANGED <<rest, gl_config>>
       ELSE /\ gl_config' = {Head(rest)}
            /\ rest' = Tail(rest)
            /\ neg_pc' = "fold"
            /\ UNCHANGED termination
    /\ UNCHANGED <<candidates, env>>
    /\ UNCHANGED appVars

\* Iterator::reduce, one fold step: accum = min_transparency(accum, next).
ReduceStep ==
    /\ neg_pc = "fold"
    /\ rest # <<>>
    /\ gl_config' = {min_transparency(CHOOSE c \in gl_config : TRUE, Head(rest))}
    /\ rest' = Tail(rest)
    /\ UNCHANGED <<candidates, neg_pc>>
    /\ UNCHANGED procVars
    /\ UNCHANGED appVars

\* Iterator::reduce returns Some(accum), unwrap() yields the chosen config.
ReduceDone ==
    /\ neg_pc = "fold"
    /\ rest = <<>>
    /\ neg_pc' = "done"
    /\ UNCHANGED <<candidates, rest, gl_config>>
    /\ UNCHANGED procVars
    /\ UNCHANGED appVars

(***************************************************************************)
(* Window: Window::from_raw and the operations window_event calls.         *)
(***************************************************************************)
\* A u32 as the pair of its 16-bit halves: the value is hi * 2^16 + lo.
U32(hi, lo) == [hi |-> hi, lo |-> lo]

\* winit::dpi::PhysicalSize<u32>
PhysicalSize(width, height) == [width |-> width, height |-> height]

\* helper::u32_to_nonzero: NonZeroU32::new(value).unwrap_or(NonZeroU32::MIN)
u32_to_nonzero(value) == IF value = U32(0, 0) THEN U32(0, 1) ELSE value

\* size.width.try_into() for the i32 Skia wants: Some up to i32::MAX = 0x7FFF_FFFF,
\* None above.
try_into_i32(value) == IF value.hi <= 32767 THEN {value} ELSE {}

\* with_inner_size(LogicalSize::new(500, 500)), at a scale factor of 1.
LogicalSize == 500
default_attrs == PhysicalSize(U32(0, LogicalSize), U32(0, LogicalSize))

\* Skia::create_surface: the size of the surface it returns; None stands for the
\* panic of expect("Could not convert width") or expect("Could not convert height").
\* A zero dimension is handed to Skia as it is (no u32_to_nonzero on this path).
create_surface(size) ==
    IF try_into_i32(size.width) = {} \/ try_into_i32(size.height) = {}
    THEN {}
    ELSE {size}

\* Window::from_raw: OpenGL::new sizes the swap surface from inner_size() through
\* u32_to_nonzero, Skia::new creates the canvas surface with inner_size();
\* frame = 0, previous_frame_start = Instant::now(); set_title has stored the
\* title on the raw window before.
from_raw(id, title, instant, inner_size) ==
    [id |-> id, title |-> title, frame |-> 0, previous_frame_start |-> instant,
     surface_size |-> PhysicalSize(u32_to_nonzero(inner_size.width),
                                   u32_to_nonzero(inner_size.height)),
     canvas_size |-> CHOOSE size \in create_surface(inner_size) : TRUE]

\* Window::resize: gl.surface.resize with the non-zero size, then
\* skia.resize_surface(new_size) replaces the canvas surface; a panic inside
\* create_surface leaves the call uncompleted.
resize(window, new_size) ==
    LET resized == [window EXCEPT !.surface_size =
                       PhysicalSize(u32_to_nonzero(new_size.width),
                                    u32_to_nonzero(new_size.height))]
        surface == create_surface(new_size)
    IN  IF surface = {}
        THEN [window |-> resized, completed |-> FALSE]
        ELSE [window |-> [resized EXCEPT !.canvas_size = CHOOSE size \in surface : TRUE],
              completed |-> TRUE]

(***************************************************************************)
(* The operations a handler performs on the GPU state of the thread and on *)
(* the registry, in program order.                                         *)
(***************************************************************************)
Cmd(op, window) == [op |-> op, window |-> window]

\* The context current after one operation: make_current establishes the
\* window's context; releasing the context that is current leaves none.
After(cmd, cur) ==
    IF cmd.op = "make_current" THEN {cmd.window}
    ELSE IF cmd.op = "release" /\ cur = {cmd.window} THEN {}
    ELSE cur

\* The operations with the context that is current when each one runs.
RECURSIVE Exec(_, _)
Exec(cmds, cur) ==
    IF cmds = <<>>
    THEN <<>>
    ELSE <<[op |-> Head(cmds).op, window |-> Head(cmds).window, current |-> cur]>>
         \o Exec(Tail(cmds), After(Head(cmds), cur))

\* The context current after the operations.
RECURSIVE FinalCurrent(_, _)
FinalCurrent(cmds, cur) ==
    IF cmds = <<>> THEN cur ELSE FinalCurrent(Tail(cmds), After(Head(cmds), cur))

\* Window::from_raw: OpenGL::new ends with not_current_ctx.make_current(&surface),
\* then Skia::new calls create_surface, which reads the framebuffer binding.
from_raw_cmds(id) == <<Cmd("make_current", id), Cmd("create_surface", id)>>

\* Window::resize; create_surface reads the framebuffer binding only when both
\* conversions succeeded.
resize_cmds(id, completed) ==
    IF completed
    THEN <<Cmd("surface_resize", id), Cmd("create_surface", id)>>
    ELSE <<Cmd("surface_resize", id)>>

\* Window::reset_canvas: restore_to_count, reset_matrix, update_scale_factor, clear.
reset_canvas_cmds(id) == <<Cmd("reset_canvas", id)>>

\* Mutant of draw_cmds: the paint callback runs without make_current.
draw_cmds_unbound(id) ==
    <<Cmd("paint", id), Cmd("flush_and_submit", id), Cmd("swap_buffers", id)>>

\* Window::draw
draw_cmds(id) ==
    <<Cmd("make_current", id), Cmd("paint", id), Cmd("flush_and_submit", id),
      Cmd("swap_buffers", id)>>

\* Mutant of drop_cmds: the resources are released without make_current.
drop_cmds_unbound(id) == <<Cmd("release", id)>>

\* impl Drop for Window: drop makes the context current, then the fields raw,
\* gl and skia are released.
drop_cmds(id) == <<Cmd("make_current", id), Cmd("release", id)>>

\* Mutant of format_title: the title counts the window being opened.
format_title_one_based(window_count) == "Window " \o ToString(window_count + 1)

\* format!("Window {}", window_count)
format_title(window_count) == "Window " \o ToString(window_count)

\* The ids the windowing layer may give a new window: unique among the
\* registered windows, and not one with an event still in flight.
FreshIds == WindowIds \ ({windows[k].id : k \in DOMAIN windows} \cup redraw_requests)

(***************************************************************************)
(* Registry primitives: HashMap and Vec.                                   *)
(***************************************************************************)
\* HashMap::get(&id).is_some()
Registered(id) == id \in DOMAIN window_indices

\* HashMap::insert
MapInsert(m, id, index) == [k \in DOMAIN m \cup {id} |-> IF k = id THEN index ELSE m[k]]

\* HashMap::remove
MapRemove(m, id) == [k \in DOMAIN m \ {id} |-> m[k]]

\* Mutant of VecRemove: Vec::swap_remove, the last element fills the hole.
VecSwapRemove(ws, index) ==
    [k \in 1..(Len(ws) - 1) |-> IF k = index + 1 THEN ws[Len(ws)] ELSE ws[k]]

\* Vec::remove(index): the elements after index shift one place to the left.
VecRemove(ws, index) ==
    [k \in 1..(Len(ws) - 1) |-> IF k <= index THEN ws[k] ELSE ws[k + 1]]

\* Mutant of Reindex: the loop starts one place too late.
RECURSIVE ReindexFromNext(_, _, _)
ReindexFromNext(m, ws, from) ==
    IF from + 1 >= Len(ws)
    THEN m
    ELSE ReindexFromNext(MapInsert(m, ws[from + 2].id, from + 1), ws, from + 1)

\* for i in from..ws.len() { window_indices.insert(ws[i].id(), i) }
RECURSIVE Reindex(_, _, _)
Reindex(m, ws, from) ==
    IF from >= Len(ws)
    THEN m
    ELSE Reindex(MapInsert(m, ws[from + 1].id, from), ws, from + 1)

\* keyboard_types::Modifiers as the set of the modifier keys held down;
\* Modifiers::default() is the empty set.
ModifierKeys == {"SHIFT"}
ModifiersDefault == {}

(***************************************************************************)
(* History bookkeeping.                                                    *)
(***************************************************************************)
\* The next value of a history variable: the histories are kept only in the
\* specifications that set recording.
Record(new, old) == IF recording THEN new ELSE old

Event(kind, id, key, state, repeat, painted) ==
    [kind |-> kind, id |-> id, key |-> key, state |-> state, repeat |-> repeat,
     painted |-> painted]

NoPass == [clean |-> FALSE, asked |-> <<>>, handled |-> <<>>]

(***************************************************************************)
(* Application::run: open_first_window, then the event loop starts.        *)
(***************************************************************************)
\* ApplicationInternal::open_first_window; OpenGL::new makes the new context current.
open_first_window(title, id) ==
    /\ window_indices' = MapInsert(window_indices, id, 0)
    /\ windows' = Append(windows, from_raw(id, title, now, default_attrs))
    /\ current' = FinalCurrent(from_raw_cmds(id), current)
    /\ ops' = Record(Exec(from_raw_cmds(id), current), ops)
    /\ paintedAt' = Record([paintedAt EXCEPT ![id] = {}], paintedAt)

\* ApplicationInternal::open_window; OpenGL::new makes the new context current.
open_window(title, id) ==
    /\ window_indices' = MapInsert(window_indices, id, Len(windows))
    /\ windows' = Append(windows, from_raw(id, title, now, default_attrs))
    /\ current' = FinalCurrent(from_raw_cmds(id), current)
    /\ ops' = Record(Exec(from_raw_cmds(id), current), ops)
    /\ paintedAt' = Record([paintedAt EXCEPT ![id] = {}], paintedAt)

\* Application::run up to the start of the loop.  OpenGL::new creates the
\* context with a second attempt for the GLES profile, and panics when both fail.
Run ==
    /\ pc = "constructed"
    /\ neg_pc = "done"
    /\ IF env.context = "Err"
       THEN /\ pc' = "panicked"
            /\ termination' = {Panicked("context", "Failed to create OpenGL context")}
            /\ UNCHANGED <<windows, window_indices, current, lastEvent, ops, paintedAt>>
       ELSE /\ \E id \in FreshIds : open_first_window("Rust Skia Template", id)
            /\ pc' = "running"
            /\ lastEvent' = Record(Event("Run", {}, "", "", FALSE, FALSE), lastEvent)
            /\ UNCHANGED termination
    /\ UNCHANGED <<keyboard_modifiers, redraw_requests, now, pass, paintedSinceTick>>
    /\ UNCHANGED <<negVars, recording, env>>

\* The match on the result of event_loop.run_app(application).
run_exit(result, code) ==
    IF result = "Ok" THEN Exited("normal", 0)
    ELSE IF result = "NotSupported" THEN Exited("not_supported", exit_codes.OP_NOT_SUPPORTED)
    ELSE IF result = "Os" THEN Exited("os", exit_codes.OS_ERROR)
    ELSE IF result = "RecreationAttempt" THEN Exited("recreation", exit_codes.EVENT_LOOP_ERROR)
    ELSE Exited("exit_failure", code)

\* run_app returns Ok after event_loop.exit(): process::exit(0).
Exit ==
    /\ pc = "exiting"
    /\ pc' = "exited"
    /\ termination' = {run_exit("Ok", 0)}
    /\ UNCHANGED <<windows, window_indices, keyboard_modifiers, current, redraw_requests,
                   now, lastEvent, ops, paintedAt, pass, paintedSinceTick, recording>>
    /\ UNCHANGED <<negVars, env>>

\* run_app returns an error while windows are open.
LoopFails ==
    /\ pc = "running"
    /\ env.run_app # "Ok"
    /\ pc' = "exited"
    /\ \E code \in ExitFailureCodes : termination' = {run_exit(env.run_app, code)}
    /\ UNCHANGED <<windows, window_indices, keyboard_modifiers, current, redraw_requests,
                   now, lastEvent, ops, paintedAt, pass, paintedSinceTick, recording>>
    /\ UNCHANGED <<negVars, env>>

(***************************************************************************)
(* ApplicationHandler::new_events.                                         *)
(***************************************************************************)
new_events(cause) ==
    /\ pc = "running"
    /\ IF cause = "Poll" /\ windows # <<>>
       THEN /\ redraw_requests' = redraw_requests \cup {windows[1].id}
            /\ pass' = Record(IF redraw_requests = {}
                              THEN [clean |-> TRUE, asked |-> <<windows[1].id>>,
                                    handled |-> <<>>]
                              ELSE NoPass, pass)
       ELSE UNCHANGED <<redraw_requests, pass>>
    /\ paintedSinceTick' = Record(IF cause = "Poll" THEN {} ELSE paintedSinceTick, paintedSinceTick)
    /\ lastEvent' = Record(IF cause = "Poll"
                           THEN Event("NewEvents", {}, cause, "", FALSE, FALSE)
                           ELSE lastEvent, lastEvent)
    /\ ops' = Record(IF cause = "Poll" THEN <<>> ELSE ops, ops)
    /\ UNCHANGED <<pc, windows, window_indices, keyboard_modifiers, current, now,
                   paintedAt>>
    /\ UNCHANGED <<negVars, recording, procVars>>

(***************************************************************************)
(* ApplicationHandler::window_event.                                       *)
(***************************************************************************)
\* Mutant of Dropped: a dropped RedrawRequested passes the request on to the
\* first registered window.
DroppedCascades(id, ev) ==
    /\ ~Registered(id)
    /\ redraw_requests' = IF ev.kind = "RedrawRequested"
                          THEN (redraw_requests \ {id}) \cup
                               (IF windows = <<>> THEN {} ELSE {windows[1].id})
                          ELSE redraw_requests
    /\ lastEvent' = Record(IF ev.kind = "RedrawRequested" THEN ev ELSE lastEvent, lastEvent)
    /\ ops' = Record(IF ev.kind = "RedrawRequested" THEN <<>> ELSE ops, ops)
    /\ UNCHANGED <<pc, windows, window_indices, keyboard_modifiers, current, now,
                   paintedAt, pass, paintedSinceTick>>

\* Mutant of Dropped: an event for an unknown window resets the modifier state.
DroppedClearsModifiers(id, ev) ==
    /\ ~Registered(id)
    /\ redraw_requests' = IF ev.kind = "RedrawRequested"
                          THEN redraw_requests \ {id}
                          ELSE redraw_requests
    /\ lastEvent' = Record(IF ev.kind = "RedrawRequested" THEN ev ELSE lastEvent, lastEvent)
    /\ ops' = Record(IF ev.kind = "RedrawRequested" THEN <<>> ELSE ops, ops)
    /\ keyboard_modifiers' = ModifiersDefault
    /\ UNCHANGED <<pc, windows, window_indices, current, now,
                   paintedAt, pass, paintedSinceTick>>

\* The lookup fails: `None => return`.  A dropped RedrawRequested is consumed
\* by the windowing layer all the same.
Dropped(id, ev) ==
    /\ ~Registered(id)
    /\ redraw_requests' = IF ev.kind = "RedrawRequested"
                          THEN redraw_requests \ {id}
                          ELSE redraw_requests
    /\ lastEvent' = Record(IF ev.kind = "RedrawRequested" THEN ev ELSE lastEvent, lastEvent)
    /\ ops' = Record(IF ev.kind = "RedrawRequested" THEN <<>> ELSE ops, ops)
    /\ UNCHANGED <<pc, windows, window_indices, keyboard_modifiers, current, now,
                   paintedAt, pass, paintedSinceTick>>

\* Mutant of should_exit: the loop exits while one window is still registered.
should_exit_early(ws) == Len(ws) <= 1

\* if self.windows.is_empty() { event_loop.exit(); return; }
should_exit(ws) == ws = <<>>

\* The close arm up to the end of `self.windows.remove(window_index);`: the id
\* and the Window leave the registry, then the removed Window, a temporary, is
\* dropped.
close_cmds(id) == <<Cmd("remove", id)>> \o drop_cmds(id)

\* WindowEvent::CloseRequested, for a registered window.  The removed Window is
\* dropped at the end of the statement: Drop makes its context current, then the
\* context is released, which leaves no registered window's context current.
close_requested(id) ==
    LET window_index == window_indices[id]
        indices1 == MapRemove(window_indices, id)
        windows1 == VecRemove(windows, window_index)
    IN  /\ windows' = windows1
        /\ current' = FinalCurrent(close_cmds(id), current)
        /\ ops' = Record(Exec(close_cmds(id), current), ops)
        /\ paintedAt' = Record([paintedAt EXCEPT ![id] = {}], paintedAt)
        /\ pass' = Record(NoPass, pass)
        /\ IF should_exit(windows1)
           THEN /\ pc' = "exiting"
                /\ window_indices' = indices1
           ELSE /\ window_indices' = Reindex(indices1, windows1, window_index)
                /\ UNCHANGED pc
        /\ UNCHANGED <<keyboard_modifiers, redraw_requests, now, paintedSinceTick>>

CloseRequested(id) ==
    /\ pc = "running"
    /\ LET ev == Event("CloseRequested", {id}, "", "", FALSE, FALSE)
       IN  IF Registered(id)
           THEN close_requested(id) /\ lastEvent' = Record(ev, lastEvent)
           ELSE Dropped(id, ev)
    /\ UNCHANGED <<negVars, recording, procVars>>

\* Mutant of shortcut_close: the shortcut closes the first window, not the addressed one.
shortcut_close_first(id) == Registered(id) /\ close_requested(windows[1].id)

\* logical_key == "q": self.window_event(event_loop, window_id, CloseRequested).
\* The nested call looks window_id up again; it is still registered.
shortcut_close(id) == Registered(id) /\ close_requested(id)

\* logical_key == "a": format the title from window_count, then open_window.
shortcut_open(window_count) ==
    /\ \E id \in FreshIds : open_window(format_title(window_count), id)
    /\ pass' = Record(NoPass, pass)
    /\ UNCHANGED <<pc, keyboard_modifiers, redraw_requests, now, paintedSinceTick>>

\* WindowEvent::KeyboardInput.  Only a released, non-repeat key reaches the
\* shortcut arm; every other keyboard event falls to `KeyboardInput { .. } => {}`.
KeyboardInput(id, key, state, repeat) ==
    /\ pc = "running"
    /\ LET ev == Event("KeyboardInput", {id}, key, state, repeat, FALSE)
           window_count == Len(windows)
       IN  IF ~Registered(id)
           THEN Dropped(id, ev)
           ELSE IF state = "Released" /\ ~repeat /\ key = "q"
           THEN shortcut_close(id) /\ lastEvent' = Record(ev, lastEvent)
           ELSE IF state = "Released" /\ ~repeat /\ key = "a"
           THEN /\ Len(windows) < MaxWindows
                /\ shortcut_open(window_count)
                /\ lastEvent' = Record(ev, lastEvent)
           ELSE UNCHANGED appVars
    /\ UNCHANGED <<negVars, recording, procVars>>

\* WindowEvent::Resized(physical_size) => window.resize(physical_size)
Resized(id, physical_size) ==
    /\ pc = "running"
    /\ LET ev == Event("Resized", {id}, "", "", FALSE, FALSE)
       IN  IF ~Registered(id)
           THEN Dropped(id, ev) /\ UNCHANGED termination
           ELSE LET window_index == window_indices[id]
                    result == resize(windows[window_index + 1], physical_size)
                    cmds == resize_cmds(id, result.completed)
                IN  /\ windows' = [windows EXCEPT ![window_index + 1] = result.window]
                    /\ pc' = IF result.completed THEN pc ELSE "panicked"
                    /\ termination' = IF result.completed
                                      THEN termination
                                      ELSE {Panicked("resize", "Could not convert width")}
                    /\ current' = FinalCurrent(cmds, current)
                    /\ ops' = Record(Exec(cmds, current), ops)
                    /\ lastEvent' = Record(ev, lastEvent)
                    /\ UNCHANGED <<window_indices, keyboard_modifiers, redraw_requests,
                                   now, paintedAt, pass, paintedSinceTick>>
    /\ UNCHANGED <<negVars, recording, env>>

\* WindowEvent::ModifiersChanged(new_mods) => self.keyboard_modifiers = new_mods
ModifiersChanged(id, new_mods) ==
    /\ pc = "running"
    /\ IF ~Registered(id)
       THEN Dropped(id, Event("ModifiersChanged", {id}, "", "", FALSE, FALSE))
       ELSE /\ keyboard_modifiers' = new_mods
            /\ UNCHANGED <<pc, windows, window_indices, current, redraw_requests, now,
                           lastEvent, ops, paintedAt, pass, paintedSinceTick>>
    /\ UNCHANGED <<negVars, recording, procVars>>

\* The event kinds whose match arm is `=> {}`.
IgnoredKinds ==
    {"ActivationTokenDone", "Moved", "Destroyed", "DroppedFile", "HoveredFile",
     "HoveredFileCancelled", "Focused", "Ime", "CursorMoved", "CursorEntered",
     "CursorLeft", "MouseWheel", "MouseInput", "PinchGesture", "PanGesture",
     "DoubleTapGesture", "RotationGesture", "TouchpadPressure", "AxisMotion", "Touch",
     "ScaleFactorChanged", "ThemeChanged", "Occluded"}

\* Mutant of Ignored: a focus change asks the window to redraw.
IgnoredFocusRedraws(id, kind) ==
    /\ pc = "running"
    /\ IF ~Registered(id)
       THEN Dropped(id, Event(kind, {id}, "", "", FALSE, FALSE))
       ELSE /\ redraw_requests' = IF kind = "Focused"
                                  THEN redraw_requests \cup {id}
                                  ELSE redraw_requests
            /\ UNCHANGED <<pc, windows, window_indices, keyboard_modifiers, current, now,
                           lastEvent, ops, paintedAt, pass, paintedSinceTick>>
    /\ UNCHANGED <<negVars, recording, procVars>>

\* Every window event with an empty match arm.
Ignored(id, kind) ==
    /\ pc = "running"
    /\ IF ~Registered(id)
       THEN Dropped(id, Event(kind, {id}, "", "", FALSE, FALSE))
       ELSE UNCHANGED appVars
    /\ UNCHANGED <<negVars, recording, procVars>>

\* Mutant of frame_due: the gate is open from the first instant on.
frame_due_always(frame_start, window) ==
    frame_start - window.previous_frame_start >= 0

\* frame_start - window.previous_frame_start > frame_duration
frame_due(frame_start, window) ==
    frame_start - window.previous_frame_start > FrameDuration

\* Mutant of begin_frame: previous_frame_start is not updated.
begin_frame_stale(window, frame_start) ==
    [window EXCEPT !.frame = (@ + 1) % (MaxFrame + 1)]

\* window.previous_frame_start = frame_start; window.frame += 1;
begin_frame(window, frame_start) ==
    [window EXCEPT !.previous_frame_start = frame_start,
                   !.frame = (@ + 1) % (MaxFrame + 1)]

\* Mutant of next_redraw: the cascade is never continued.
next_redraw_none(ws, window_index, window_count) == {}

\* Mutant of next_redraw: the window just handled is asked again.
next_redraw_same(ws, window_index, window_count) ==
    LET next_window_index == window_index + 1
    IN  IF next_window_index < window_count
        THEN {ws[window_index + 1].id}
        ELSE {}

\* if next_window_index < window_count { windows[next_window_index].request_redraw() }
next_redraw(ws, window_index, window_count) ==
    LET next_window_index == window_index + 1
    IN  IF next_window_index < window_count
        THEN {ws[next_window_index + 1].id}
        ELSE {}

\* window.reset_canvas(Color::WHITE); window.draw(|canvas| render_frame(..))
repaint_cmds(id) == reset_canvas_cmds(id) \o draw_cmds(id)

\* WindowEvent::RedrawRequested.  The windowing layer delivers it for a window
\* whose redraw was requested.  A repaint is reset_canvas followed by draw,
\* which makes the window's context current.
RedrawRequested(id) ==
    /\ pc = "running"
    /\ id \in redraw_requests
    /\ IF ~Registered(id)
       THEN Dropped(id, Event("RedrawRequested", {id}, "", "", FALSE, FALSE))
       ELSE LET frame_start == now
                window_count == Len(windows)
                window_index == window_indices[id]
                window == windows[window_index + 1]
                repaint == frame_due(frame_start, window)
                asked == next_redraw(windows, window_index, window_count)
                cmds == IF repaint THEN repaint_cmds(id) ELSE <<>>
            IN  /\ windows' = IF repaint
                              THEN [windows EXCEPT ![window_index + 1] =
                                       begin_frame(window, frame_start)]
                              ELSE windows
                /\ paintedSinceTick' = Record(IF repaint /\ paintedSinceTick = {}
                                              THEN {id}
                                              ELSE paintedSinceTick, paintedSinceTick)
                /\ current' = FinalCurrent(cmds, current)
                /\ ops' = Record(Exec(cmds, current), ops)
                /\ paintedAt' = Record(IF repaint
                                       THEN [paintedAt EXCEPT ![id] = {frame_start}]
                                       ELSE paintedAt, paintedAt)
                /\ redraw_requests' = (redraw_requests \ {id}) \cup asked
                /\ pass' = Record(IF pass.clean
                                  THEN [clean |-> TRUE,
                                        asked |-> pass.asked \o
                                                  (IF asked = {} THEN <<>>
                                                   ELSE <<CHOOSE w \in asked : TRUE>>),
                                        handled |-> Append(pass.handled, id)]
                                  ELSE pass, pass)
                /\ lastEvent' = Record(Event("RedrawRequested", {id}, "", "", FALSE, repaint), lastEvent)
                /\ UNCHANGED <<pc, window_indices, keyboard_modifiers, now>>
    /\ UNCHANGED <<negVars, recording, procVars>>

(***************************************************************************)
(* The environment: time passes between two events.                        *)
(***************************************************************************)
Advance ==
    /\ pc = "running"
    /\ now < MaxTime
    /\ now' = now + 1
    /\ lastEvent' = Record(Event("Advance", {}, "", "", FALSE, FALSE), lastEvent)
    /\ ops' = Record(<<>>, ops)
    /\ UNCHANGED <<pc, windows, window_indices, keyboard_modifiers, current,
                   redraw_requests, paintedAt, pass, paintedSinceTick>>
    /\ UNCHANGED <<negVars, recording, procVars>>

\* Time passes at the horizon of the clock: the instants are kept relative to
\* now, so every previous_frame_start moves one unit into the past.  A frame
\* start MaxTime or more units ago stays at the oldest instant; the gate only
\* tests for more than FrameDuration < MaxTime units.
Elapse ==
    /\ pc = "running"
    /\ now = MaxTime
    /\ windows' = [k \in DOMAIN windows |->
                      [windows[k] EXCEPT !.previous_frame_start =
                                             IF @ > 0 THEN @ - 1 ELSE 0]]
    /\ UNCHANGED <<pc, window_indices, keyboard_modifiers, current, redraw_requests, now,
                   lastEvent, ops, paintedAt, pass, paintedSinceTick>>
    /\ UNCHANGED <<negVars, recording, procVars>>

(***************************************************************************)
(* Specifications.                                                         *)
(***************************************************************************)
Causes == {"Init", "Poll"}
Keys == {"q", "a", "x"}
ElementStates == {"Pressed", "Released"}

\* The widths and heights of the resize events: both ends of the u32 range, the
\* default, and the two values around i32::MAX.
U32Samples ==
    {U32(0, 0), U32(0, 1), U32(0, LogicalSize), U32(32767, 65535), U32(32768, 0),
     U32(65535, 65535)}
ResizeSizes == {PhysicalSize(width, height) : width \in U32Samples, height \in U32Samples}

\* The configuration the running application was started with.
StartConfig == [supports_transparency |-> {TRUE}, num_samples |-> 0]

AppInit ==
    /\ pc = "constructed"
    /\ windows = <<>>
    /\ window_indices = <<>>
    /\ keyboard_modifiers = ModifiersDefault
    /\ current = {}
    /\ redraw_requests = {}
    /\ now = 0
    /\ lastEvent = Event("New", {}, "", "", FALSE, FALSE)
    /\ ops = <<>>
    /\ paintedAt = [id \in WindowIds |-> {}]
    /\ pass = NoPass
    /\ paintedSinceTick = {}
    /\ env = NoFaults
    /\ termination = {}

\* The state Application::new returns, for one run of the negotiation.
Init ==
    /\ AppInit
    /\ recording = TRUE
    /\ candidates = <<StartConfig>>
    /\ rest = <<>>
    /\ gl_config = {StartConfig}
    /\ neg_pc = "done"

Next ==
    \/ Run
    \/ \E cause \in Causes : new_events(cause)
    \/ \E id \in WindowIds : CloseRequested(id)
    \/ \E id \in WindowIds, key \in Keys, state \in ElementStates, repeat \in BOOLEAN :
           KeyboardInput(id, key, state, repeat)
    \/ \E id \in WindowIds : RedrawRequested(id)
    \/ Advance

Spec == Init /\ [][Next]_vars

\* Every kind of window event, without the histories.
EventInit ==
    /\ AppInit
    /\ recording = FALSE
    /\ candidates = <<StartConfig>>
    /\ rest = <<>>
    /\ gl_config = {StartConfig}
    /\ neg_pc = "done"

EventNext ==
    \/ Next
    \/ \E id \in WindowIds : Resized(id, default_attrs)
    \/ \E id \in WindowIds, new_mods \in SUBSET ModifierKeys : ModifiersChanged(id, new_mods)
    \/ \E id \in WindowIds, kind \in IgnoredKinds : Ignored(id, kind)

EventSpec == EventInit /\ [][EventNext]_vars

\* The loop running for ever, without the histories and from a clock that
\* starts at its horizon: ticks keep occurring, time keeps passing, and a
\* requested redraw is delivered (the platform loop under ControlFlow::Poll).
LiveInit ==
    /\ pc = "constructed"
    /\ windows = <<>>
    /\ window_indices = <<>>
    /\ keyboard_modifiers = ModifiersDefault
    /\ current = {}
    /\ redraw_requests = {}
    /\ now = MaxTime
    /\ lastEvent = Event("New", {}, "", "", FALSE, FALSE)
    /\ ops = <<>>
    /\ paintedAt = [id \in WindowIds |-> {}]
    /\ pass = NoPass
    /\ paintedSinceTick = {}
    /\ recording = FALSE
    /\ candidates = <<StartConfig>>
    /\ rest = <<>>
    /\ gl_config = {StartConfig}
    /\ neg_pc = "done"
    /\ env = NoFaults
    /\ termination = {}

LiveNext ==
    \/ Run
    \/ \E cause \in Causes : new_events(cause)
    \/ \E id \in WindowIds : CloseRequested(id)
    \/ \E id \in WindowIds, key \in Keys, state \in ElementStates, repeat \in BOOLEAN :
           /\ key = "a" => Len(windows) < MaxLiveWindows
           /\ KeyboardInput(id, key, state, repeat)
    \/ \E id \in WindowIds : RedrawRequested(id)
    \/ Elapse

LiveSpec ==
    /\ LiveInit
    /\ [][LiveNext]_vars
    /\ WF_vars(new_events("Poll"))
    /\ WF_vars(Elapse)
    /\ \A id \in WindowIds : WF_vars(RedrawRequested(id))

\* The loop of Spec with resize events of the default size between the opens,
\* repaints and closes.
ContextNext ==
    \/ Next
    \/ \E id \in WindowIds : Resized(id, default_attrs)

ContextSpec == Init /\ [][ContextNext]_vars

\* One window that is resized to every sample size, ticked and repainted.
ResizeNext ==
    \/ Run
    \/ \E cause \in Causes : new_events(cause)
    \/ \E id \in WindowIds, physical_size \in ResizeSizes : Resized(id, physical_size)
    \/ \E id \in WindowIds : RedrawRequested(id)
    \/ Advance

ResizeSpec == Init /\ [][ResizeNext]_vars

ConfigLists == UNION {[1..n -> Configs] : n \in 0..MaxConfigs}

\* The process from the first statement of Application::new to its end, for
\* every answer of the layers below; the loop itself only closes windows.
StartInit ==
    /\ pc = "new"
    /\ windows = <<>>
    /\ window_indices = <<>>
    /\ keyboard_modifiers = ModifiersDefault
    /\ current = {}
    /\ redraw_requests = {}
    /\ now = 0
    /\ lastEvent = Event("New", {}, "", "", FALSE, FALSE)
    /\ ops = <<>>
    /\ paintedAt = [id \in WindowIds |-> {}]
    /\ pass = NoPass
    /\ paintedSinceTick = {}
    /\ recording = TRUE
    /\ candidates \in {configs \in ConfigLists : Len(configs) < MaxConfigs}
    /\ rest = candidates
    /\ gl_config = {}
    /\ neg_pc = "new"
    /\ env \in Envs
    /\ termination = {}

StartNext ==
    \/ NewEventLoop
    \/ BuildDisplay
    \/ ReduceFirst
    \/ ReduceStep
    \/ ReduceDone
    \/ Construct
    \/ Run
    \/ \E id \in WindowIds : CloseRequested(id)
    \/ Exit
    \/ LoopFails

StartSpec == StartInit /\ [][StartNext]_vars

\* The negotiation alone, over every offered list of configs.
NegInit ==
    /\ AppInit
    /\ recording = TRUE
    /\ candidates \in ConfigLists
    /\ rest = candidates
    /\ gl_config = {}
    /\ neg_pc = "start"

NegNext ==
    \/ ReduceFirst
    \/ ReduceStep
    \/ ReduceDone

NegSpec == NegInit /\ [][NegNext]_vars

(***************************************************************************)
(* Properties of the window registry and the dispatcher.                   *)
(***************************************************************************)
IdsOf(ws) == {ws[k].id : k \in DOMAIN ws}

\* The zero-based position of the window with this id.
IndexOf(ws, id) == (CHOOSE k \in DOMAIN ws : ws[k].id = id) - 1

IsCloseEvent(ev) ==
    \/ ev.kind = "CloseRequested"
    \/ ev.kind = "KeyboardInput" /\ ev.key = "q"

ShortcutEvent(id, key) == Event("KeyboardInput", {id}, key, "Released", FALSE, FALSE)

\* C1: the id -> index map is injective, its keys are exactly the ids of the
\* windows in the sequence, every id maps to its window's current position,
\* and no index reaches the number of windows.
C1_RegistryInvariant ==
    /\ DOMAIN window_indices = IdsOf(windows)
    /\ \A k \in DOMAIN windows : window_indices[windows[k].id] = k - 1
    /\ \A a, b \in DOMAIN window_indices :
           a # b => window_indices[a] # window_indices[b]
    /\ \A a \in DOMAIN window_indices :
           window_indices[a] >= 0 /\ window_indices[a] < Len(windows)

\* C1 witness: the first of several windows was closed and others were opened
\* before, so the windows left have been reindexed.
C1_Witness ==
    /\ IsCloseEvent(lastEvent)
    /\ Len(windows) = 2
    /\ windows[1].title = "Window 1"
    /\ windows[2].title = "Window 2"
    /\ window_indices[windows[1].id] = 0
    /\ window_indices[windows[2].id] = 1

\* C2: a close of the window at index i, with another window registered, moves
\* every window from index j > i to j - 1 and remaps its id to j - 1, and leaves
\* every window at index j < i where it was, with its mapping unchanged.
C2_CloseShiftsDown ==
    [][\A w \in WindowIds :
          (/\ IsCloseEvent(lastEvent')
           /\ lastEvent'.id = {w}
           /\ w \in IdsOf(windows)
           /\ Len(windows) >= 2)
          => LET i == IndexOf(windows, w)
             IN  /\ Len(windows') = Len(windows) - 1
                 /\ \A j \in 0..(Len(windows) - 1) :
                        /\ j < i => /\ windows'[j + 1] = windows[j + 1]
                                    /\ windows[j + 1].id \in DOMAIN window_indices'
                                    /\ window_indices'[windows[j + 1].id] = j
                                    /\ window_indices[windows[j + 1].id] = j
                        /\ j > i => /\ windows'[j] = windows[j + 1]
                                    /\ windows[j + 1].id \in DOMAIN window_indices'
                                    /\ window_indices'[windows[j + 1].id] = j - 1
                                    /\ window_indices[windows[j + 1].id] = j
      ]_vars

\* C2 witness: the middle one of three windows was closed; the first stayed at
\* index 0 and the third moved from index 2 to index 1.
C2_Witness ==
    /\ IsCloseEvent(lastEvent)
    /\ Len(windows) = 2
    /\ windows[1].title = "Rust Skia Template"
    /\ windows[2].title = "Window 2"
    /\ window_indices[windows[1].id] = 0
    /\ window_indices[windows[2].id] = 1

\* C3: exit is signalled by exactly the events that empty the registry: a step
\* ends with exit signalled iff it ends with no window registered, and such a
\* step is the close of the one window that was left.
C3_ExitIffRegistryEmptied ==
    [][/\ (pc' = "exiting") = (windows' = <<>>)
       /\ pc' = "exiting" => /\ IsCloseEvent(lastEvent')
                             /\ Len(windows) = 1
                             /\ lastEvent'.id = {windows[1].id}
      ]_vars

\* C3 witness: the last window was closed after others had been opened and
\* closed, and exit is signalled.
C3_Witness ==
    /\ pc = "exiting"
    /\ windows = <<>>
    /\ window_indices = <<>>
    /\ lastEvent.kind = "CloseRequested"
    /\ now > 0

\* C4: a released, non-repeat "q" addressed to a registered window W ends in
\* the state a CloseRequested for W ends in: exactly W is removed, the windows
\* left are reindexed, and exit is signalled iff W was the last window.
C4_ShortcutQIsClose ==
    [][\A w \in WindowIds :
          (lastEvent' = ShortcutEvent(w, "q") /\ w \in IdsOf(windows))
          => /\ close_requested(w)
             /\ Len(windows') = Len(windows) - 1
             /\ IdsOf(windows') = IdsOf(windows) \ {w}
             /\ \A k \in DOMAIN windows' : windows'[k] \in {windows[j] : j \in DOMAIN windows}
             /\ DOMAIN window_indices' = IdsOf(windows')
             /\ \A k \in DOMAIN windows' : window_indices'[windows'[k].id] = k - 1
             /\ (pc' = "exiting") = (Len(windows) = 1)
      ]_vars

\* C4 witness: "q" closed the first of two windows; the other one is now at index 0.
C4_Witness ==
    /\ lastEvent.kind = "KeyboardInput"
    /\ lastEvent.key = "q"
    /\ Len(windows) = 1
    /\ windows[1].title = "Window 1"
    /\ lastEvent.id \cap IdsOf(windows) = {}
    /\ pc = "running"

\* The titles the "a" shortcut gives, by the number of windows registered.
ExpectedTitles == <<"Window 1", "Window 2", "Window 3", "Window 4", "Window 5">>

\* C5: a released, non-repeat "a" handled with N windows registered appends
\* one window at index N titled "Window N", maps the new id to N and leaves
\* every window registered before at its index.
C5_ShortcutAOpens ==
    [][\A w \in WindowIds :
          lastEvent' = ShortcutEvent(w, "a")
          => LET N == Len(windows)
             IN  /\ Len(windows') = N + 1
                 /\ SubSeq(windows', 1, N) = windows
                 /\ N \in DOMAIN ExpectedTitles => windows'[N + 1].title = ExpectedTitles[N]
                 /\ N = 2 => windows'[N + 1].title = "Window 2"
                 /\ windows'[N + 1].id \notin IdsOf(windows)
                 /\ DOMAIN window_indices' = DOMAIN window_indices \cup {windows'[N + 1].id}
                 /\ window_indices'[windows'[N + 1].id] = N
                 /\ \A k \in DOMAIN window_indices : window_indices'[k] = window_indices[k]
      ]_vars

\* C5 witness: "a" was handled with two windows registered, after an earlier
\* window had been closed; the new window is at index 2, titled "Window 2".
C5_Witness ==
    /\ lastEvent.kind = "KeyboardInput"
    /\ lastEvent.key = "a"
    /\ Len(windows) = 3
    /\ windows[3].title = "Window 2"
    /\ windows[2].title = "Window 2"
    /\ window_indices[windows[3].id] = 2

(***************************************************************************)
(* Properties of the redraw cascade and the frame-rate gate.               *)
(***************************************************************************)
\* C6: in a pass started by one external tick with no redraw in flight, and
\* with no window opened or closed since, the windows are asked to redraw in
\* registry order, each one only after the RedrawRequested of the one before
\* it has been handled, each exactly once, and the pass goes on until the last
\* window has been handled.  With 3 windows: 0, then 1, then 2.
C6_CascadeOrder ==
    pass.clean
    => LET N == Len(windows)
           ids == [k \in 1..N |-> windows[k].id]
           a == Len(pass.asked)
           h == Len(pass.handled)
       IN  /\ N >= 1
           /\ a >= 1
           /\ a <= N
           /\ pass.asked = SubSeq(ids, 1, a)
           /\ pass.handled = SubSeq(ids, 1, h)
           /\ \/ h = a - 1 /\ redraw_requests = {ids[a]}
              \/ h = a /\ a = N /\ redraw_requests = {}

\* C6 witness: a pass over 3 windows has run to its end.
C6_Witness ==
    /\ pass.clean
    /\ Len(windows) = 3
    /\ pass.asked = <<windows[1].id, windows[2].id, windows[3].id>>
    /\ pass.handled = pass.asked
    /\ redraw_requests = {}

\* C7: two RedrawRequested events for one window that start less than 1/60 s
\* apart do not both repaint it (a repaint is frame + 1 with
\* previous_frame_start set to the start of the event), an event that does not
\* repaint leaves every window as it is, and every RedrawRequested of a
\* registered window asks the next window, if there is one, to redraw.
C7_FrameRateGate ==
    [][\A w \in WindowIds :
          (/\ lastEvent'.kind = "RedrawRequested"
           /\ lastEvent'.id = {w}
           /\ w \in IdsOf(windows))
          => LET i == IndexOf(windows, w)
             IN  /\ lastEvent'.painted
                    => /\ \A t \in paintedAt[w] : now - t >= FrameDuration
                       /\ windows'[i + 1].frame = windows[i + 1].frame + 1
                       /\ windows'[i + 1].previous_frame_start = now
                       /\ \A k \in DOMAIN windows : k # i + 1 => windows'[k] = windows[k]
                 /\ ~lastEvent'.painted => windows' = windows
                 /\ i + 1 < Len(windows) => windows[i + 2].id \in redraw_requests'
      ]_vars

\* C7 witness: a window repainted less than 1/60 s ago got a second
\* RedrawRequested, which did not repaint it and asked the next window.
C7_Witness ==
    /\ lastEvent.kind = "RedrawRequested"
    /\ ~lastEvent.painted
    /\ \E w \in lastEvent.id :
           /\ w \in IdsOf(windows)
           /\ \E t \in paintedAt[w] : now - t < FrameDuration
           /\ windows[IndexOf(windows, w) + 1].frame = 1
           /\ IndexOf(windows, w) + 1 < Len(windows)
           /\ windows[IndexOf(windows, w) + 2].id \in redraw_requests

\* C8 as stated: between two consecutive external ticks at most one window
\* repaints.
C8_OnePaintPerTick ==
    [][(lastEvent'.kind = "RedrawRequested" /\ lastEvent'.painted)
       => (paintedSinceTick = {} \/ paintedSinceTick = lastEvent'.id)
      ]_vars

\* C8 amended: a step changes the frame bookkeeping of at most one window; it
\* does so only as the RedrawRequested event addressed to that window, and only
\* when more than 1/60 s have passed since its previous_frame_start.
C8_OnePaintPerRedrawEvent ==
    [][\A k \in DOMAIN windows :
          LET w == windows[k].id
          IN  (w \in IdsOf(windows') /\ windows'[IndexOf(windows', w) + 1] # windows[k])
              => /\ lastEvent' = Event("RedrawRequested", {w}, "", "", FALSE, TRUE)
                 /\ now - windows[k].previous_frame_start > FrameDuration
                 /\ windows'[IndexOf(windows', w) + 1].frame = windows[k].frame + 1
                 /\ \A j \in DOMAIN windows : j # k => windows'[j] = windows[j]
      ]_vars

\* C8 witness: a second window repaints before the next external tick.
C8_Witness ==
    /\ lastEvent.kind = "RedrawRequested"
    /\ lastEvent.painted
    /\ paintedSinceTick # {}
    /\ paintedSinceTick # lastEvent.id
    /\ \A w \in paintedSinceTick \cup lastEvent.id :
           w \in IdsOf(windows) /\ paintedAt[w] = {now}

(***************************************************************************)
(* Properties of the capability negotiation, under NegSpec.                *)
(***************************************************************************)
SupportsTransparency(c) == unwrap_or(c.supports_transparency, FALSE)

Offered == {candidates[k] : k \in DOMAIN candidates}

\* C9 as stated: of two configs of which exactly one supports transparency the
\* comparator returns that one, in either argument position, and the reduction
\* of a list that holds a config supporting transparency returns such a config.
C9_TransparencyWins ==
    neg_pc = "done"
    => /\ \A c1, c2 \in Offered :
              SupportsTransparency(c1) # SupportsTransparency(c2)
              => SupportsTransparency(min_transparency(c1, c2))
       /\ (\E c \in Offered : SupportsTransparency(c))
          => \A chosen \in gl_config : SupportsTransparency(chosen)

\* C10: of two configs with equal transparency support the comparator returns
\* one with the lower sample count, and the reduction of a non-empty list whose
\* configs all have the same transparency support returns a config of the list
\* with the least sample count.
C10_LowestSampleCount ==
    neg_pc = "done"
    => /\ \A c1, c2 \in Offered :
              SupportsTransparency(c1) = SupportsTransparency(c2)
              => LET r == min_transparency(c1, c2)
                 IN  /\ r \in {c1, c2}
                     /\ r.num_samples <= c1.num_samples
                     /\ r.num_samples <= c2.num_samples
       /\ (\A c1, c2 \in Offered : SupportsTransparency(c1) = SupportsTransparency(c2))
          => /\ gl_config # {}
             /\ \A chosen \in gl_config :
                    /\ chosen \in Offered
                    /\ \A c \in Offered : chosen.num_samples <= c.num_samples

\* C10 witness: three configs, none supporting transparency, the least sample
\* count in the middle; the reduction returned the middle one.
C10_Witness ==
    /\ neg_pc = "done"
    /\ Len(candidates) = 3
    /\ \A c \in Offered : ~SupportsTransparency(c)
    /\ candidates[2].num_samples < candidates[1].num_samples
    /\ candidates[2].num_samples < candidates[3].num_samples
    /\ gl_config = {candidates[2]}

(***************************************************************************)
(* Properties of the event routing.                                        *)
(***************************************************************************)
\* What a window event can change besides the redraw requests: the exit and
\* error signal, the registry with every window's fields, the modifier state and
\* the current context.
routedVars == <<pc, windows, window_indices, keyboard_modifiers, current>>

\* window_event(event_loop, id, event) for every kind of event; a
\* RedrawRequested is delivered only when one is in flight.
AnyWindowEvent(id) ==
    \/ CloseRequested(id)
    \/ \E key \in Keys, state \in ElementStates, repeat \in BOOLEAN :
           KeyboardInput(id, key, state, repeat)
    \/ \E physical_size \in ResizeSizes : Resized(id, physical_size)
    \/ \E new_mods \in SUBSET ModifierKeys : ModifiersChanged(id, new_mods)
    \/ \E kind \in IgnoredKinds : Ignored(id, kind)
    \/ RedrawRequested(id)

\* C11: in every reachable state, no window event of any kind addressed to an
\* id that is not in the registry has a step that changes the exit or error
\* signal, the registry, a window's frame counter or previous_frame_start, the
\* modifier state or the current context, or that requests a redraw.
C11_UnknownIdDropped ==
    \A id \in WindowIds \ DOMAIN window_indices :
        ~ENABLED (/\ AnyWindowEvent(id)
                  /\ \/ routedVars' # routedVars
                     \/ ~(redraw_requests' \subseteq redraw_requests))

\* C11 witness: a window was closed with its redraw still in flight, while
\* other windows stay registered, a context is current and a modifier is held.
C11_Witness ==
    /\ pc = "running"
    /\ \E id \in redraw_requests : ~Registered(id)
    /\ windows # <<>>
    /\ \E k \in DOMAIN windows : windows[k].frame > 0
    /\ current # {}
    /\ keyboard_modifiers # ModifiersDefault

\* The window events without behaviour: the kinds with an empty match arm and
\* every keyboard event that is not the release of 'q' or 'a' (key presses,
\* auto-repeat events, other keys).
OtherWindowEvent(id) ==
    \/ \E kind \in IgnoredKinds : Ignored(id, kind)
    \/ \E key \in Keys, state \in ElementStates, repeat \in BOOLEAN :
           /\ ~(state = "Released" /\ ~repeat /\ key \in {"q", "a"})
           /\ KeyboardInput(id, key, state, repeat)

\* C15: in every reachable state and for every registered window, a
\* ModifiersChanged event sets the modifier state to the new value and changes
\* nothing else, and an event without behaviour changes nothing at all: neither
\* changes the exit signal, the registry, a window's canvas surface, frame
\* counter or previous_frame_start, or the current context, and neither requests
\* a redraw.
C15_ModifiersOnlyOthersNothing ==
    \A id \in DOMAIN window_indices :
        /\ \A new_mods \in SUBSET ModifierKeys :
               ~ENABLED (/\ ModifiersChanged(id, new_mods)
                         /\ \/ keyboard_modifiers' # new_mods
                            \/ <<pc, windows, window_indices, current>>' #
                                   <<pc, windows, window_indices, current>>
                            \/ redraw_requests' # redraw_requests)
        /\ ~ENABLED (/\ OtherWindowEvent(id)
                     /\ \/ routedVars' # routedVars
                        \/ redraw_requests' # redraw_requests)

\* C15 witness: a modifier is held (a ModifiersChanged event was handled) while
\* two windows are registered, one has painted, a context is current and a
\* redraw is in flight.
C15_Witness ==
    /\ pc = "running"
    /\ keyboard_modifiers = {"SHIFT"}
    /\ Len(windows) > 1
    /\ \E k \in DOMAIN windows : windows[k].frame > 0
    /\ current # {}
    /\ redraw_requests # {}

(***************************************************************************)
(* Properties of the GPU context discipline.                               *)
(***************************************************************************)
\* The positions of ops holding this operation on this window.
OpsAt(op, window) == {k \in DOMAIN ops : ops[k].op = op /\ ops[k].window = window}

\* C12: every invocation of the paint callback for a window W happens while
\* handling a RedrawRequested for W, with W's context current, after a
\* reset_canvas of W in the same handling with no other paint in between, and
\* before the flush and the present (swap_buffers) of W that follow it.
C12_PaintDiscipline ==
    \A k \in DOMAIN ops :
        ops[k].op = "paint"
        => LET w == ops[k].window
           IN  /\ lastEvent.kind = "RedrawRequested"
               /\ lastEvent.id = {w}
               /\ ops[k].current = {w}
               /\ \E r \in OpsAt("reset_canvas", w) :
                      /\ r < k
                      /\ \A j \in (r + 1)..(k - 1) : ops[j].op # "paint"
               /\ \E f \in OpsAt("flush_and_submit", w), p \in OpsAt("swap_buffers", w) :
                      /\ k < f
                      /\ f < p
                      /\ \A j \in (k + 1)..p : ops[j].op # "paint"

\* C12 witness: a window was repainted while another window's context was
\* current when its RedrawRequested arrived.
C12_Witness ==
    /\ lastEvent.kind = "RedrawRequested"
    /\ lastEvent.painted
    /\ \E k \in DOMAIN ops : ops[k].op = "paint" /\ lastEvent.id = {ops[k].window}
    /\ ops[1].current # {}
    /\ ops[1].current # lastEvent.id
    /\ Len(windows) > 1

(***************************************************************************)
(* Properties of the surfaces.                                             *)
(***************************************************************************)
\* C13: every resize(w, h) of a registered window, for every u32 w and h,
\* completes, and right after it the window's canvas surface has the size (w, h).
C13_ResizeSetsCanvasSize ==
    [][\A id \in WindowIds, physical_size \in ResizeSizes :
          (Registered(id) /\ Resized(id, physical_size))
          => /\ pc' = "running"
             /\ windows'[window_indices[id] + 1].canvas_size = physical_size]_vars

\* C21: in every state of the running application, that is at construction
\* and after every completed resize(w, h), w = 0 or h = 0 included, the canvas
\* surface of each registered window has the dimensions of its swap surface.
C21_SurfaceSizeAgreement ==
    pc = "running"
    => \A i \in 1..Len(windows) : windows[i].canvas_size = windows[i].surface_size

(***************************************************************************)
(* Properties of the process termination.                                  *)
(***************************************************************************)
\* The fatal process-level conditions: the event loop cannot be created, no
\* compatible capability set, the initial window or context cannot be created,
\* and the three failures of the running loop.
FatalCauses ==
    {"event_loop", "no_config", "display", "window", "context", "os", "not_supported",
     "recreation"}

\* C14: whenever the process has ended because of a fatal condition it ended
\* with a positive exit code, the exit codes of the different failures of the
\* loop are pairwise distinct, and the exit code 0 is produced only by the
\* normal end, after the last window was closed.
C14_ExitCodePerCategory ==
    /\ \A t \in termination :
           /\ t.cause \in FatalCauses
              => /\ t.kind = "exit"
                 /\ \A code \in t.code : code > 0
           /\ t.code = {0} => t.cause = "normal" /\ windows = <<>>
    /\ \A r1, r2 \in EventLoopErrors :
           r1 # r2 => run_exit(r1, 0).code # run_exit(r2, 0).code

\* C16: whenever the handling of a Resized event for a window W resized W's
\* swap surface or rebuilt W's canvas surface from the framebuffer binding, W's
\* own context was the current one at that operation.
C16_ResizeContextCurrent ==
    lastEvent.kind = "Resized"
    => \A k \in DOMAIN ops :
           ops[k].op \in {"surface_resize", "create_surface"}
           => ops[k].current = {ops[k].window}

\* C17: whenever the handling of a RedrawRequested event ran reset_canvas on a
\* window W, W's own context was the current one at that operation.
C17_ResetCanvasContextCurrent ==
    lastEvent.kind = "RedrawRequested"
    => \A k \in DOMAIN ops :
           ops[k].op = "reset_canvas" => ops[k].current = {ops[k].window}

\* C18: whenever a close (CloseRequested or the 'q' shortcut) removed a window W
\* from the registry, W's context was made current after the removal, and the
\* release of W's resources is the very next operation and runs with W's
\* context current, whichever context was current when the event arrived.
C18_TeardownOrder ==
    IsCloseEvent(lastEvent)
    => \A w \in lastEvent.id :
           /\ w \notin IdsOf(windows)
           /\ w \notin DOMAIN window_indices
           /\ \E r \in OpsAt("remove", w), m \in OpsAt("make_current", w) :
                  /\ r < m
                  /\ OpsAt("release", w) = {m + 1}
                  /\ ops[m + 1].current = {w}

\* C18 witness: a window was closed while the context of another window, still
\* registered, was the current one.
C18_Witness ==
    /\ IsCloseEvent(lastEvent)
    /\ ops # <<>>
    /\ ops[1].current # {}
    /\ ops[1].current # lastEvent.id
    /\ ops[1].current \subseteq IdsOf(windows)

(***************************************************************************)
(* Properties of the redraw cascade under removals.                        *)
(***************************************************************************)
\* The windows painted by the operations of the last handled event.
Painted(operations) == {operations[k].window : k \in {j \in DOMAIN operations :
                                                        operations[j].op = "paint"}}

\* C19: a step that consumes the RedrawRequested of a window that is no longer
\* registered drops it: it asks no window to redraw, paints nothing and changes
\* neither the registry nor the current context; and in every step the windows
\* newly asked to redraw and the windows painted are registered, so a removed
\* window is never painted or asked again.
C19_CascadeStopsOnRemoval ==
    [][/\ \A w \in redraw_requests \ redraw_requests' :
              ~Registered(w)
              => /\ lastEvent' = Event("RedrawRequested", {w}, "", "", FALSE, FALSE)
                 /\ redraw_requests' = redraw_requests \ {w}
                 /\ ops' = <<>>
                 /\ UNCHANGED <<pc, windows, window_indices, current, paintedAt>>
       /\ (redraw_requests' \ redraw_requests) \subseteq DOMAIN window_indices'
       /\ ops' # ops => Painted(ops') \subseteq DOMAIN window_indices'
       /\ \A w \in WindowIds :
              paintedAt'[w] # paintedAt[w] /\ paintedAt'[w] # {}
              => w \in DOMAIN window_indices']_vars

\* C19 witness: with the first window still at index 0, a later window was
\* asked by the cascade and closed before its RedrawRequested arrived; the event
\* was dropped, and no redraw is in flight although two windows are registered.
C19_Witness ==
    /\ lastEvent.kind = "RedrawRequested"
    /\ lastEvent.id \cap IdsOf(windows) = {}
    /\ Len(windows) = 2
    /\ windows[1].title = "Rust Skia Template"
    /\ windows[2].title = "Window 2"
    /\ redraw_requests = {}

(***************************************************************************)
(* Liveness of the redraw cascade.                                         *)
(***************************************************************************)
\* The time since the last frame start of the registered window id.
Age(id) == now - windows[window_indices[id] + 1].previous_frame_start

\* C20: under LiveSpec (ticks keep occurring, time keeps passing, every
\* requested redraw is delivered) a registered window that has no redraw
\* request in flight is asked to redraw unless it leaves the registry, and a
\* registered window whose last frame start lies in the past is repainted (its
\* frame start becomes the present instant) unless it leaves the registry.
C20_RedrawLiveness ==
    \A id \in WindowIds :
        /\ (Registered(id) /\ id \notin redraw_requests)
               ~> (~Registered(id) \/ id \in redraw_requests)
        /\ (Registered(id) /\ Age(id) > 0)
               ~> (~Registered(id) \/ Age(id) = 0)

\* C20 witness: the window at the last index was opened by the shortcut after
\* another window had been closed, it has been repainted before (its counter is
\* not 0), its frame is due again and no redraw is in flight.
C20_Witness ==
    /\ pc = "running"
    /\ Len(windows) = MaxLiveWindows
    /\ windows[1].title # "Rust Skia Template"
    /\ windows[MaxLiveWindows].frame > 0
    /\ Age(windows[MaxLiveWindows].id) > FrameDuration
    /\ redraw_requests = {}

====
